---- MODULE Spec2Model ----
(***************************************************************************)
(* A model of py-tikzplot (src/tikzplot.py): the option containers         *)
(* (BaseList / OptionList / ValueList), the coercion as_tikz_value, the    *)
(* item interface of TikzElement, the write of the composite elements      *)
(* ErrorPlot and Violin, the escape function tikz_escape_value, and the    *)
(* write of a tree of environments (Figure, Axis, GroupPlot) and plots.    *)
(*                                                                         *)
(* Python values are records tagged by their type in field t.  A container *)
(* (an OrderedDict) is the sequence of its <<key, value>> items in         *)
(* iteration order.  The text written to a file is the sequence of the     *)
(* non-empty strings handed to file.write, split into tokens.  A call that *)
(* may raise returns a record whose field exc names the exception ("" when *)
(* it returns normally) beside the state the call leaves behind.           *)
(***************************************************************************)
EXTENDS Integers, Sequences, FiniteSets, TLC

VARIABLES
    kind,       \* the class of the element under study
    orientation, \* the orientation a Violin was constructed with
    options,    \* self.options of that element: its <<key, value>> items
    heap,       \* the option containers of the sub-plots, by identity
    lineRef,    \* self.line.options: the identity of the container it names
    subRef,     \* self.error.options / self.violin.options, likewise
    installed,  \* the containers the last write installed on the sub-plots
    out,        \* the text of the last write
    last,       \* the last call: its name, arguments, exception and result
    pre,        \* the state as that call began, and the call before it
    assigned,   \* the keys assigned on the composite since its construction
    nops,       \* the number of mutating calls so far
    nwrites,    \* the number of writes of the composite so far
    root,       \* the element at the root of the tree of elements, with its children
    escArg      \* the argument tikz_escape_value is called with

vars == <<kind, orientation, options, heap, lineRef, subRef, installed, out, last, pre, assigned,
          nops, nwrites, root, escArg>>

(***************************************************************************)
(* Bounds of the model.                                                    *)
(***************************************************************************)
MaxOps == 3
MaxSets == 1
MaxWrites == 2

(***************************************************************************)
(* Python values.                                                          *)
(***************************************************************************)
None == [t |-> "None"]
Str(s) == [t |-> "str", s |-> s]
Num(n) == [t |-> "num", n |-> n]
Float(text) == [t |-> "num", f |-> text]
Tuple(items) == [t |-> "tuple", items |-> items]
List(items) == [t |-> "list", items |-> items]
Dict(pairs) == [t |-> "dict", pairs |-> pairs]
Object == [t |-> "object"]

IsMapping(v) == v.t \in {"dict", "ValueList", "OptionList"}
IsNumber(v) == v.t = "num"
IsBaseValue(v) == v.t \in {"Value", "EncapsulatedValue", "ValueList", "Coordinate"}
IsBaseElement(v) == v.t \in {"ErrorPlot._LegendImage", "Violin._LegendImage"}
IsIterable(v) == v.t \in {"str", "tuple", "list", "dict", "ValueList", "OptionList"}

RECURSIVE Hashable(_)
Hashable(k) ==
    /\ k.t \notin {"list", "dict", "ValueList", "OptionList"}
    /\ k.t = "tuple" => \A i \in 1..Len(k.items) : Hashable(k.items[i])

Value(v) == [t |-> "Value", value |-> v]
EncapsulatedValue(v) ==
    [t |-> "EncapsulatedValue", value |-> IF IsBaseValue(v) THEN v ELSE Value(v)]
ValueList(pairs) == [t |-> "ValueList", pairs |-> pairs]
OptionList(pairs) == [t |-> "OptionList", pairs |-> pairs]
Coordinate(point) == [t |-> "Coordinate", point |-> point]

(***************************************************************************)
(* Results of calls.                                                       *)
(***************************************************************************)
Ok(val) == [exc |-> "", val |-> val]
Raise(exc) == [exc |-> exc, val |-> None]
Res(exc, d) == [exc |-> exc, d |-> d]

(***************************************************************************)
(* Bind(e, Op) is Op(e) with e evaluated once, before Op uses it: Python   *)
(* evaluates the arguments of a call before the call.                      *)
(***************************************************************************)
Bind(e, Op(_)) == CHOOSE y \in {Op(x) : x \in {e}} : TRUE

(***************************************************************************)
(* OrderedDict.                                                            *)
(***************************************************************************)
Keys(d) == [i \in 1..Len(d) |-> d[i][1]]
HasKey(d, key) == \E i \in 1..Len(d) : d[i][1] = key
IndexOf(d, key) == CHOOSE i \in 1..Len(d) : d[i][1] = key
Lookup(d, key) == d[IndexOf(d, key)][2]
Remove(d, key) == SelectSeq(d, LAMBDA item : item[1] # key)

OrderedDict_setitem_moves(d, key, value) == Append(Remove(d, key), <<key, value>>)

OrderedDict_setitem(d, key, value) ==
    IF HasKey(d, key)
    THEN [d EXCEPT ![IndexOf(d, key)] = <<key, value>>]
    ELSE Append(d, <<key, value>>)

OrderedDict_getitem_default(d, key) ==
    IF HasKey(d, key) THEN Ok(Lookup(d, key)) ELSE Ok(None)

OrderedDict_getitem(d, key) ==
    IF HasKey(d, key) THEN Ok(Lookup(d, key)) ELSE Raise("KeyError")

OrderedDict_delitem(d, key) ==
    IF HasKey(d, key) THEN Res("", Remove(d, key)) ELSE Res("KeyError", d)

(***************************************************************************)
(* BaseList.__setitem__, BaseList.add and as_tikz_value call one another.  *)
(* An exception leaves the container as it was when it was raised: the     *)
(* items inserted before it stay.                                          *)
(***************************************************************************)
RECURSIVE as_tikz_value(_)
RECURSIVE BaseList_setitem(_, _, _)
RECURSIVE AddMapping(_, _)
RECURSIVE AddEach(_, _)
RECURSIVE AddArg(_, _)
RECURSIVE AddArgs(_, _)

BaseList_setitem_raw(d, key, value) ==
    IF ~Hashable(key) THEN Res("TypeError", d)
    ELSE Res("", OrderedDict_setitem(d, key, value))

BaseList_setitem(d, key, value) ==
    Bind(as_tikz_value(value),
         LAMBDA c : IF c.exc # "" THEN Res(c.exc, d)
                    ELSE IF ~Hashable(key) THEN Res("TypeError", d)
                    ELSE Res("", OrderedDict_setitem(d, key, c.val)))

\* for key, value in arg.items(): self[key] = value   (also for kwargs)
AddMapping(r, pairs) ==
    IF r.exc # "" \/ pairs = <<>> THEN r
    ELSE Bind(BaseList_setitem(r.d, pairs[1][1], pairs[1][2]),
              LAMBDA r2 : AddMapping(r2, Tail(pairs)))

\* for arg2 in arg: self.add(arg2)
AddEach(r, items) ==
    IF r.exc # "" \/ items = <<>> THEN r
    ELSE Bind(AddArg(r.d, items[1]), LAMBDA r2 : AddEach(r2, Tail(items)))

NoRule(arg) ==
    /\ ~IsMapping(arg)
    /\ ~(arg.t = "tuple" /\ Len(arg.items) = 2)
    /\ ~(arg.t = "str" \/ IsNumber(arg))
    /\ ~IsIterable(arg)

AddUnmatched_raises(d, arg) == Res("TypeError", d)

AddUnmatched(d, arg) == Res("", d)

\* the body of  for arg in args:  one positional argument
AddArg(d, arg) ==
    IF IsMapping(arg) THEN AddMapping(Res("", d), arg.pairs)
    ELSE IF arg.t = "tuple" /\ Len(arg.items) = 2
         THEN BaseList_setitem(d, arg.items[1], arg.items[2])
    ELSE IF arg.t = "str" \/ IsNumber(arg) THEN BaseList_setitem(d, arg, None)
    ELSE IF IsIterable(arg) THEN AddEach(Res("", d), arg.items)
    ELSE AddUnmatched(d, arg)

AddArgs(r, args) ==
    IF r.exc # "" \/ args = <<>> THEN r
    ELSE Bind(AddArg(r.d, args[1]), LAMBDA r2 : AddArgs(r2, Tail(args)))

BaseList_add(d, args, kwargs) ==
    Bind(AddArgs(Res("", d), args), LAMBDA r : AddMapping(r, kwargs))

BaseList_init(args, kwargs) == BaseList_add(<<>>, args, kwargs)

as_tikz_value(value) ==
    IF value.t = "Coordinate" THEN Ok(EncapsulatedValue(value))
    ELSE IF value.t = "tuple" /\ Len(value.items) = 0 THEN Raise("IndexError")
    ELSE IF value.t = "tuple" /\ IsNumber(value.items[1]) THEN Ok(EncapsulatedValue(value))
    ELSE IF value.t = "None" \/ IsBaseValue(value) \/ IsBaseElement(value) THEN Ok(value)
    ELSE IF IsIterable(value) /\ value.t # "str"
         THEN Bind(BaseList_init(<<value>>, <<>>),
                   LAMBDA r : IF r.exc # "" THEN Raise(r.exc) ELSE Ok(ValueList(r.d)))
    ELSE Ok(Value(value))

(***************************************************************************)
(* TikzElement: the item interface of an element delegates to its options. *)
(***************************************************************************)
TikzElement_init(args, kwargs) == BaseList_init(args, kwargs)

TikzElement_getitem(d, key) == OrderedDict_getitem(d, key)

TikzElement_setitem(d, key, value) == BaseList_setitem(d, key, value)

TikzElement_delitem(d, key) ==
    IF HasKey(d, key) THEN OrderedDict_delitem(d, key) ELSE Res("", d)

(***************************************************************************)
(* Writing.  Emit is file.write: the empty string writes no character.     *)
(***************************************************************************)
Emit(s) == IF s = "" THEN <<>> ELSE <<s>>

RECURSIVE Repr(_)
RECURSIVE ReprJoin(_)

ReprJoin(items) ==
    IF items = <<>> THEN <<>>
    ELSE IF Len(items) = 1 THEN Repr(items[1])
    ELSE Repr(items[1]) \o <<", ">> \o ReprJoin(Tail(items))

Repr(v) ==
    CASE v.t = "str" -> <<"'">> \o Emit(v.s) \o <<"'">>
      [] v.t = "num" -> IF "n" \in DOMAIN v THEN <<ToString(v.n)>> ELSE <<v.f>>
      [] v.t = "None" -> <<"None">>
      [] v.t = "tuple" -> <<"(">> \o ReprJoin(v.items)
                            \o (IF Len(v.items) = 1 THEN <<",">> ELSE <<>>) \o <<")">>
      [] v.t = "list" -> <<"[">> \o ReprJoin(v.items) \o <<"]">>
      [] v.t \in {"Value", "EncapsulatedValue"} -> <<v.t, "(">> \o Repr(v.value) \o <<")">>
      [] OTHER -> <<"<", v.t, ">">>

\* "{}".format(x)
Format(v) == IF v.t = "str" THEN Emit(v.s) ELSE Repr(v)

RECURSIVE WriteValue(_, _)
RECURSIVE WriteItems(_, _)

\* write_item of BaseList.write
WriteItem(item, ctx) ==
    IF item[2] = None THEN Format(item[1])
    ELSE Format(item[1]) \o <<"=">> \o WriteValue(item[2], ctx)

\* the two loops of BaseList.write over a non-empty list of items
WriteItems(items, ctx) ==
    IF Len(items) = 1 THEN WriteItem(items[1], ctx)
    ELSE WriteItem(items[1], ctx) \o <<", ">> \o WriteItems(Tail(items), ctx)

BaseList_write(d, ctx) ==
    IF d = <<>> THEN [exc |-> "IndexError", out |-> <<>>]
    ELSE [exc |-> "", out |-> WriteItems(d, ctx)]

\* file.write(open); super().write(file); file.write(close)
Bracketed(open, w, close) ==
    [exc |-> w.exc, out |-> <<open>> \o w.out \o (IF w.exc = "" THEN <<close>> ELSE <<>>)]

OptionList_write_always(d, ctx) ==
    Bind(BaseList_write(d, ctx), LAMBDA w : Bracketed("[", w, "]"))

OptionList_write(d, ctx) ==
    IF d # <<>>
    THEN Bind(BaseList_write(d, ctx), LAMBDA w : Bracketed("[", w, "]"))
    ELSE [exc |-> "", out |-> <<>>]

ValueList_write(d, ctx) ==
    IF d # <<>>
    THEN Bind(BaseList_write(d, ctx), LAMBDA w : Bracketed("{", w, "}"))
    ELSE [exc |-> "", out |-> <<>>]

Value_write(v) == IF v.value # None THEN Format(v.value) ELSE <<>>

Coordinate_write(v) == Format(v.point) \o <<"\n">>

\* ErrorPlot._LegendImage.write: the element's own options as the write leaves them
ErrorPlot_LegendImage_options(d) ==
    LET d1 == IF HasKey(d, Str("forget plot"))
              THEN TikzElement_delitem(d, Str("forget plot")).d ELSE d
    IN IF ~HasKey(d1, Str("draw"))
       THEN TikzElement_setitem(d1, Str("draw"), Str("none")).d ELSE d1

LegendImageDraw ==
    "\\draw[mark repeat=2,mark phase=2] plot coordinates {(0cm,0cm) (0.3cm,0cm) (0.6cm,0cm)}; }"

ErrorPlot_LegendImage_write(v, ctx) ==
    <<"{\\fill">> \o OptionList_write(ErrorPlot_LegendImage_options(v.options), ctx).out
        \o <<"(0cm, -0.1cm) rectangle(0.6cm, 0.1cm);", LegendImageDraw>>

\* Violin._LegendImage.write; ctx is self.violin.line.options as the write finds it
Violin_LegendImage_line_opts(ctx) ==
    LET c == BaseList_init(<<OptionList(ctx)>>, <<>>).d
        d == IF HasKey(c, Str("forget plot"))
             THEN OrderedDict_delitem(c, Str("forget plot")).d ELSE c
    IN BaseList_add(d, <<Str("/pgfplots/.cd"),
                         Dict(<< <<Str("mark repeat"), Num(2)>>,
                                 <<Str("mark phase"), Num(2)>> >>)>>, <<>>).d

Violin_LegendImage_write(v, ctx) ==
    <<"{\\path[/pgfplots/.cd, smooth]">> \o
    (IF v.orientation = "vertical"
     THEN <<" plot coordinates {(0.0cm, 0.3cm) (0.2cm, 0.125cm) (0.1cm, 0.0cm) (0.0cm, -0.3cm) (-0.1cm, 0.0cm) (-0.2cm, 0.125cm) (0.0cm, 0.3cm)};", "\\path">>
            \o OptionList_write(Violin_LegendImage_line_opts(ctx), <<>>).out
            \o <<" plot coordinates {(0cm,-0.3cm) (0cm,0cm) (0cm,0.3cm)}; }">>
     ELSE IF v.orientation = "horizontal"
     THEN <<" plot coordinates {(0.0cm, 0.0cm) (0.175cm, 0.2cm) (0.3cm, 0.1cm) (0.6cm, 0.0cm) (0.3cm, -0.1cm) (0.175cm, -0.2cm) (0.0cm, 0.0cm)};", "\\path">>
            \o OptionList_write(Violin_LegendImage_line_opts(ctx), <<>>).out
            \o <<" plot coordinates {(0cm,0cm) (0.3cm,0cm) (0.6cm,0cm)}; }">>
     ELSE <<>>)

WriteValue(v, ctx) ==
    CASE v.t = "Value" -> Value_write(v)
      [] v.t = "EncapsulatedValue" -> <<"{">> \o WriteValue(v.value, ctx) \o <<"}">>
      [] v.t = "ValueList" -> ValueList_write(v.pairs, ctx).out
      [] v.t = "Coordinate" -> Coordinate_write(v)
      [] v.t = "ErrorPlot._LegendImage" -> ErrorPlot_LegendImage_write(v, ctx)
      [] v.t = "Violin._LegendImage" -> Violin_LegendImage_write(v, ctx)

(***************************************************************************)
(* The calls the model makes.                                              *)
(***************************************************************************)
Call(op, exc, args, kwargs, key, value, ret) ==
    [op |-> op, exc |-> exc, args |-> args, kwargs |-> kwargs,
     key |-> key, value |-> value, ret |-> ret]

\* the state before a call of the option container under SpecList
Snapshot ==
    [options |-> options, heap |-> heap, lineRef |-> lineRef, subRef |-> subRef,
     out |-> <<>>, op |-> "init", exc |-> ""]

\* the state before a call of the composite element, with the text of the
\* last write and the name and exception of the last call
CompositeSnapshot ==
    [options |-> options, heap |-> heap, lineRef |-> lineRef, subRef |-> subRef,
     out |-> out, op |-> last.op, exc |-> last.exc]

NoInstalled == [line |-> <<>>, sub |-> <<>>]

NoCall == Call("init", "", <<>>, <<>>, None, None, None)

\* the arguments of the add calls: args positional, kwargs named
AddCalls ==
    { [args |-> <<Dict(<< <<Str("a"), Num(1)>> >>)>>, kwargs |-> <<>>],
      [args |-> <<Dict(<< <<Str("b"), Num(2)>> >>)>>, kwargs |-> <<>>],
      [args |-> <<Dict(<< <<Str("a"), Num(3)>> >>)>>, kwargs |-> <<>>],
      [args |-> <<Str("ybar"), Str("fill")>>, kwargs |-> << <<Str("mark"), Str("none")>> >>],
      [args |-> <<Str("foo")>>, kwargs |-> <<>>],
      [args |-> <<None>>, kwargs |-> <<>>],
      [args |-> <<Object, Str("b")>>, kwargs |-> <<>>],
      [args |-> <<Tuple(<<Str("a"), Num(1)>>)>>, kwargs |-> << <<Str("b"), None>> >>],
      [args |-> <<List(<<Str("b"), Tuple(<<Str("a"), Tuple(<<>>)>>)>>)>>, kwargs |-> <<>>],
      [args |-> <<Tuple(<<List(<<Str("x")>>), Num(1)>>)>>, kwargs |-> <<>>],
      [args |-> <<Num(1), Str("a")>>, kwargs |-> <<>>] }

\* the values assigned to an option
RawValues ==
    { None, Str("red"), Num(1), Object,
      Tuple(<<>>), Tuple(<<Num(1), Num(2)>>), Tuple(<<Str("a"), Str("b")>>), Tuple(<<Str("a")>>),
      List(<<>>), List(<<Str("x"), Str("y")>>), List(<<None>>),
      Dict(<< <<Str("a"), Num(1)>> >>),
      Value(Num(1)), Coordinate(Tuple(<<Num(0), Num(0)>>)) }

SetCalls == ({Str("a")} \X RawValues) \cup {<<Str("foo"), Num(1)>>}

ElementSetCalls == {<<Str("a"), Str("red")>>, <<Str("b"), Tuple(<<>>)>>}

ItemKeys == {Str("a"), Str("foo")}

InitCalls ==
    { [args |-> <<>>, kwargs |-> <<>>],
      [args |-> <<Str("b")>>, kwargs |-> <<>>] }

(***************************************************************************)
(* SpecList: one element (a TikzElement) and its option container.         *)
(***************************************************************************)
NoComposite ==
    /\ orientation = "none"
    /\ assigned = {}
    /\ heap = <<>>
    /\ lineRef = 0
    /\ subRef = 0
    /\ installed = NoInstalled

InitList ==
    /\ kind = "TikzElement"
    /\ \E c \in InitCalls : options = TikzElement_init(c.args, c.kwargs).d
    /\ NoComposite
    /\ out = <<>>
    /\ last = NoCall
    /\ pre = [options |-> <<>>, heap |-> <<>>, lineRef |-> 0, subRef |-> 0,
              out |-> <<>>, op |-> "init", exc |-> ""]
    /\ nops = 0
    /\ nwrites = 0
    /\ root = None
    /\ escArg = None

Mutated(call, d) ==
    /\ nops < MaxOps
    /\ nops' = nops + 1
    /\ options' = d
    /\ last' = call
    /\ pre' = Snapshot
    /\ out' = <<>>
    /\ UNCHANGED <<root, escArg, kind, orientation, heap, lineRef, subRef, installed, assigned,
                 nwrites>>

Observed(call, text) ==
    /\ last' = call
    /\ pre' = Snapshot
    /\ out' = text
    /\ UNCHANGED <<root, escArg, kind, orientation, options, heap, lineRef, subRef, installed,
                 assigned, nops, nwrites>>

\* self.options.add(*args, **kwargs)
Add ==
    \E c \in AddCalls :
        LET r == BaseList_add(options, c.args, c.kwargs) IN
        Mutated(Call("add", r.exc, c.args, c.kwargs, None, None, None), r.d)

\* self.options[key] = value
SetItem ==
    \E c \in SetCalls :
        LET r == BaseList_setitem(options, c[1], c[2]) IN
        Mutated(Call("setitem", r.exc, <<>>, <<>>, c[1], c[2], None), r.d)

\* del self.options[key]
DelItem ==
    \E key \in ItemKeys :
        LET r == OrderedDict_delitem(options, key) IN
        Mutated(Call("delitem", r.exc, <<>>, <<>>, key, None, None), r.d)

\* self.options[key]
GetItem ==
    \E key \in ItemKeys :
        LET r == OrderedDict_getitem(options, key) IN
        Observed(Call("getitem", r.exc, <<>>, <<>>, key, None, r.val), <<>>)

\* element[key] = value
ElementSetItem ==
    \E c \in ElementSetCalls :
        LET r == TikzElement_setitem(options, c[1], c[2]) IN
        Mutated(Call("element.setitem", r.exc, <<>>, <<>>, c[1], c[2], None), r.d)

\* del element[key]
ElementDelItem ==
    \E key \in ItemKeys :
        LET r == TikzElement_delitem(options, key) IN
        Mutated(Call("element.delitem", r.exc, <<>>, <<>>, key, None, None), r.d)

\* element[key]
ElementGetItem ==
    \E key \in ItemKeys :
        LET r == TikzElement_getitem(options, key) IN
        Observed(Call("element.getitem", r.exc, <<>>, <<>>, key, None, r.val), <<>>)

\* self.options.write(file)
WriteOptions ==
    LET w == OptionList_write(options, <<>>) IN
    Observed(Call("write", w.exc, <<>>, <<>>, None, None, None), w.out)

NextList ==
    \/ Add
    \/ SetItem
    \/ DelItem
    \/ GetItem
    \/ ElementSetItem
    \/ ElementDelItem
    \/ ElementGetItem
    \/ WriteOptions

SpecList == InitList /\ [][NextList]_vars

(***************************************************************************)
(* Properties of the option container, checked under SpecList.             *)
(***************************************************************************)
Inserting == last.op \in {"add", "setitem", "element.setitem"}
Reading == last.op \in {"getitem", "element.getitem"}
Deleting == last.op \in {"delitem", "element.delitem"}

RECURSIVE ArgEvents(_)
RECURSIVE ArgsEvents(_)

\* the <<key, value>> insertions one positional argument stands for, in order
ArgEvents(arg) ==
    IF IsMapping(arg) THEN arg.pairs
    ELSE IF arg.t = "tuple" /\ Len(arg.items) = 2 THEN << <<arg.items[1], arg.items[2]>> >>
    ELSE IF arg.t \in {"str", "num"} THEN << <<arg, None>> >>
    ELSE IF arg.t \in {"tuple", "list"} THEN ArgsEvents(arg.items)
    ELSE <<>>

ArgsEvents(args) ==
    IF args = <<>> THEN <<>> ELSE ArgEvents(args[1]) \o ArgsEvents(Tail(args))

\* the insertions of the last call: positional left to right, then named
CallEvents ==
    IF last.op = "add" THEN ArgsEvents(last.args) \o last.kwargs
    ELSE << <<last.key, last.value>> >>

\* the keys of ev that are not in old, each once, in the order of their first event
RECURSIVE NewKeys(_, _)
NewKeys(old, ev) ==
    IF ev = <<>> THEN <<>>
    ELSE IF \E i \in 1..Len(old) : old[i] = ev[1][1] THEN NewKeys(old, Tail(ev))
    ELSE <<ev[1][1]>> \o NewKeys(Append(old, ev[1][1]), Tail(ev))

LastEventValue(ev, key) ==
    ev[CHOOSE i \in 1..Len(ev) :
          /\ ev[i][1] = key
          /\ \A j \in (i + 1)..Len(ev) : ev[j][1] # key][2]

UniqueKeys(d) == \A i, j \in 1..Len(d) : d[i][1] = d[j][1] => i = j

ExampleReinsert == << <<Str("a"), Value(Num(3))>>, <<Str("b"), Value(Num(2))>> >>
ExampleBar ==
    << <<Str("ybar"), None>>, <<Str("fill"), None>>, <<Str("mark"), Value(Str("none"))>> >>

\* C3: after every add call or item assignment that returns, the keys are
\* unique, the keys already present keep their positions, the new keys follow
\* in the order of their first insertion (positional arguments left to right,
\* then named ones), every inserted key holds the value of its latest
\* insertion and the other keys keep theirs; a=3, b=2 and ybar, fill,
\* mark=none are written in that order.
C3_InsertionOrder ==
    /\ UniqueKeys(options)
    /\ (Inserting /\ last.exc = "") =>
          LET ev == CallEvents IN
          /\ Keys(options) = Keys(pre.options) \o NewKeys(Keys(pre.options), ev)
          /\ \A i \in 1..Len(options) :
                LET key == options[i][1] IN
                IF \E j \in 1..Len(ev) : ev[j][1] = key
                THEN options[i][2] = as_tikz_value(LastEventValue(ev, key)).val
                ELSE options[i][2] = Lookup(pre.options, key)
    /\ (last.op = "write" /\ options = ExampleReinsert) =>
          out = <<"[", "a", "=", "3", ", ", "b", "=", "2", "]">>
    /\ (last.op = "write" /\ options = ExampleBar) =>
          out = <<"[", "ybar", ", ", "fill", ", ", "mark", "=", "none", "]">>

\* C3 witness: add({'a': 3}) on a container holding a=1, b=2 leaves a=3, b=2.
C3_Witness ==
    /\ last.op = "add"
    /\ last.args = <<Dict(<< <<Str("a"), Num(3)>> >>)>>
    /\ pre.options = << <<Str("a"), Value(Num(1))>>, <<Str("b"), Value(Num(2))>> >>
    /\ options = ExampleReinsert

HasUnmatched(args) == \E i \in 1..Len(args) : NoRule(args[i])

ValueClasses == {"None", "Value", "EncapsulatedValue", "ValueList", "Coordinate",
                 "ErrorPlot._LegendImage", "Violin._LegendImage"}

\* C5 as stated: assigning any host value as an option value returns without
\* raising, and the value stored is the no-value marker, a typed value, a
\* brace-wrapped value, an aggregate list or a scalar.
C5_CoercionTotal ==
    last.op \in {"setitem", "element.setitem"} =>
        /\ last.exc = ""
        /\ HasKey(options, last.key)
        /\ Lookup(options, last.key).t \in ValueClasses

\* C8 as stated: reading or deleting a key that is not present raises a lookup
\* error, on the container and through the element, and leaves the container
\* as it was.
C8_MissingKeyRaises ==
    ((Reading \/ Deleting) /\ ~HasKey(pre.options, last.key)) =>
        (last.exc = "KeyError" /\ options = pre.options)

\* C8 as amended: reading a key that is not present raises a lookup error on
\* the container and through the element, and so does deleting it on the
\* container; deleting it through the element (del element[key]) returns
\* normally and does nothing; in each case the container is left as it was.
C8_MissingKey ==
    ((Reading \/ Deleting) /\ ~HasKey(pre.options, last.key)) =>
        /\ last.exc = IF last.op = "element.delitem" THEN "" ELSE "KeyError"
        /\ options = pre.options

\* C8 witness: del element['foo'] on a non-empty container without foo.
C8_Witness ==
    /\ last.op = "element.delitem"
    /\ last.key = Str("foo")
    /\ ~HasKey(pre.options, Str("foo"))
    /\ pre.options # <<>>
    /\ last.exc = ""

RECURSIVE Typed(_)
Typed(v) ==
    /\ v.t \in ValueClasses
    /\ v.t = "ValueList" => \A i \in 1..Len(v.pairs) : Typed(v.pairs[i][2])

FlagWritten(key) ==
    \E j \in 1..Len(out) :
        /\ <<out[j]>> = Format(key)
        /\ j < Len(out) => out[j + 1] # "="

\* C9: every value stored in the container is the no-value marker or a typed
\* node with a write operation, never a raw host value; a key added as a bare
\* flag reads back as the no-value marker and is written as the bare key, with
\* no '=' after it.
C9_ValuesTyped ==
    /\ \A i \in 1..Len(options) : Typed(options[i][2])
    /\ (last.op = "add" /\ last.exc = "" /\ last.args = <<Str("foo")>> /\ last.kwargs = <<>>) =>
          (HasKey(options, Str("foo")) /\ Lookup(options, Str("foo")) = None)
    /\ (Reading /\ last.exc = "") => Typed(last.ret)
    /\ last.op = "write" =>
          /\ \A i \in 1..Len(options) : options[i][2] = None => FlagWritten(options[i][1])
          /\ (\A i \in 1..Len(options) : options[i][2] = None) =>
                \A j \in 1..Len(out) : out[j] # "="

\* C9 witness: a list assigned to a key is stored as a ValueList of flags,
\* after a deletion took place.
C9_Witness ==
    /\ last.op = "setitem"
    /\ last.value = List(<<Str("x"), Str("y")>>)
    /\ Lookup(options, Str("a")) = ValueList(<< <<Str("x"), None>>, <<Str("y"), None>> >>)
    /\ Len(options) > 1

RECURSIVE JoinEntries(_)
JoinEntries(d) ==
    IF d = <<>> THEN <<>>
    ELSE IF Len(d) = 1 THEN WriteItem(d[1], <<>>)
    ELSE WriteItem(d[1], <<>>) \o <<", ">> \o JoinEntries(Tail(d))

\* C10: the write of an option container never fails; it emits no character
\* if and only if the container has no entry, and otherwise '[', the entries
\* joined by ', ', and ']'.
C10_EmptyIffNoOutput ==
    last.op = "write" =>
        /\ last.exc = ""
        /\ (out = <<>>) <=> (options = <<>>)
        /\ options # <<>> => out = <<"[">> \o JoinEntries(options) \o <<"]">>

\* C10 witness: an empty container was written and nothing was emitted.
C10_Witness ==
    /\ last.op = "write"
    /\ options = <<>>
    /\ out = <<>>
    /\ nops > 0

\* the text sub is written somewhere in the text of the last write
Writes(sub) ==
    \E j \in 0..(Len(out) - Len(sub)) : SubSeq(out, j + 1, j + Len(sub)) = sub

\* C11: an option bound to an empty aggregate value (a ValueList with no
\* entry, such as the coercion of an empty list) is written as key={}.
C11_EmptyAggregateBraces ==
    (last.op = "write" /\ last.exc = "") =>
        \A i \in 1..Len(options) :
            options[i][2] = ValueList(<<>>) =>
                Writes(Format(options[i][1]) \o <<"=", "{", "}">>)

(***************************************************************************)
(* The composite elements ErrorPlot and Violin.  Each holds two sub-plots; *)
(* the option container of a sub-plot is named by a reference into heap,   *)
(* so that replacing the container and changing its content differ.        *)
(***************************************************************************)
LineId == 1
SubId == 2

LegendKey == Str("legend image code/.code")

\* the smallest identity above the two original containers that h does not use
Fresh(h) ==
    CHOOSE id \in 3..(Cardinality(DOMAIN h) + 3) :
        /\ id \notin DOMAIN h
        /\ \A j \in 3..(id - 1) : j \in DOMAIN h

\* h with container id bound to d
Alloc(h, id, d) == [j \in DOMAIN h \cup {id} |-> IF j = id THEN d ELSE h[j]]

\* the containers still referenced; the two original ones are kept for comparison
Collect(h, live) == [j \in (DOMAIN h) \cap ({LineId, SubId} \cup live) |-> h[j]]

\* the coordinates of ErrorPlot(x=[0], y=[1], e=[(1, 1)])
ErrorPlot_line_points == <<Tuple(<<Num(0), Num(1)>>)>>
ErrorPlot_error_points == <<Tuple(<<Num(0), Num(2)>>), Tuple(<<Num(0), Num(0)>>)>>

\* the coordinates of Violin(x=[0], pdf=[1], location=0)
Violin_violin_points(o) ==
    IF o = "vertical"
    THEN <<Tuple(<<Num(-1), Num(0)>>), Tuple(<<Num(1), Num(0)>>)>>
    ELSE <<Tuple(<<Num(0), Num(-1)>>), Tuple(<<Num(0), Num(1)>>)>>
Violin_line_points(o) == <<Tuple(<<Num(0), Num(0)>>), Tuple(<<Num(0), Num(0)>>)>>

RECURSIVE WritePoints(_)
WritePoints(points) ==
    IF points = <<>> THEN <<>>
    ELSE Coordinate_write(Coordinate(points[1])) \o WritePoints(Tail(points))

Coordinates_write(points) == <<"%\n", "coordinates {\n">> \o WritePoints(points) \o <<"};\n">>

\* Plot.write of a plot without label and legend entry: TikzCommand.write,
\* then Label.write and LegendEntry.write, which write nothing without a child
TikzCommand_head(name) == <<"%\n", name>>

Plot_write(name, d, points, ctx) ==
    TikzCommand_head(name) \o OptionList_write(d, ctx).out \o Coordinates_write(points)

\* the text of Plot.write before the write of the value bound to key begins
Plot_write_until(name, d, key, ctx) ==
    LET i == IndexOf(d, key) IN
    TikzCommand_head(name) \o <<"[">>
        \o (IF i = 1 THEN <<>> ELSE WriteItems(SubSeq(d, 1, i - 1), ctx) \o <<", ">>)
        \o Format(key) \o <<"=">>

ErrorPlot_init(args, kwargs, line_options, error_options) ==
    LET self == TikzElement_init(args, kwargs)
        line0 == BaseList_add(<<>>, args, kwargs)
        line1 == IF line_options # None /\ line0.exc = ""
                 THEN BaseList_add(line0.d, <<line_options>>, <<>>) ELSE line0
        error0 == BaseList_init(<<Str("fill"), Str("forget plot")>>,
                                << <<Str("draw"), Str("none")>>, <<Str("mark"), Str("none")>> >>)
        error1 == TikzElement_setitem(error0.d, Str("fill opacity"), Float("0.1"))
        error2 == BaseList_add(error1.d, args, kwargs)
        error3 == IF error2.exc = ""
                  THEN BaseList_add(error2.d, <<error_options>>, <<>>) ELSE error2
    IN [exc |-> IF self.exc # "" THEN self.exc
                ELSE IF line1.exc # "" THEN line1.exc ELSE error3.exc,
        options |-> self.d, line |-> line1.d, sub |-> error3.d]

Violin_init(args, kwargs, line_options, violin_options) ==
    LET line0 == BaseList_add(<<>>, <<Str("thin"), Str("no marks"), Str("forget plot")>>,
                              << <<Str("draw"), Str("black")>> >>)
        violin0 == BaseList_add(<<>>, <<Str("fill"), Str("no marks")>>,
                                << <<Str("draw"), Str("none")>> >>)
        self == TikzElement_init(args, kwargs)
        violin1 == BaseList_add(violin0.d, <<violin_options>>, <<>>)
        line1 == BaseList_add(line0.d, <<line_options>>, <<>>)
    IN [exc |-> IF self.exc # "" THEN self.exc
                ELSE IF violin1.exc # "" THEN violin1.exc ELSE line1.exc,
        options |-> self.d, line |-> line1.d, sub |-> violin1.d]

\* the positional arguments of the OptionList a write installs on a sub-plot
MergeArgs_reversed(injected, parent, own) == <<own, parent, injected>>

MergeArgs(injected, parent, own) == <<injected, parent, own>>

\* self.line.options = old_line_opts at the end of write
RestoredRef_kept(old, temp) == temp

RestoredRef(old, temp) == old

FailPoints == {"none", "child1", "child2", "legend"}

WriteResult(h, lref, sref, inst, text, exc) ==
    [heap |-> Collect(h, {lref, sref}), lineRef |-> lref, subRef |-> sref,
     installed |-> inst, out |-> text, exc |-> exc]

\* ErrorPlot.write, lines 643-645: the containers installed on self.line and
\* self.error; own_line and own_error are old_line_opts and old_error_opts
ErrorPlot_installs(opts, own_line, own_error) ==
    [line |-> BaseList_init(
                  MergeArgs(Dict(<< <<LegendKey,
                                      [t |-> "ErrorPlot._LegendImage",
                                       options |-> TikzElement_init(<<OptionList(own_error)>>,
                                                                    <<>>).d]>> >>),
                            OptionList(opts), OptionList(own_line)), <<>>).d,
     sub |-> BaseList_init(MergeArgs(Dict(<<>>), OptionList(opts), OptionList(own_error)),
                           <<>>).d]

\* ErrorPlot.write, lines 646-648, with inst installed; fail names where
\* file.write raises:
\*   child1: at the first write of self.error; child2: at the first write of
\*   self.line; legend: at the first write of the legend image of self.line
ErrorPlot_super_write(h, lref, sref, inst, fail) ==
    LET t1 == Fresh(h)
        t2 == Fresh(Alloc(h, t1, inst.line))
        h2 == Alloc(Alloc(h, t1, inst.line), t2, inst.sub)
        image == Lookup(inst.line, LegendKey)
        drawn == image.t = "ErrorPlot._LegendImage"
        \* the legend image after its write, which changes its own options;
        \* old_line_opts holds the same object when the image came from it
        image2 == [image EXCEPT !.options = ErrorPlot_LegendImage_options(image.options)]
        shared == HasKey(h[lref], LegendKey)
        h3 == IF ~drawn THEN h2
              ELSE IF shared
              THEN Alloc(Alloc(h2, t1, OrderedDict_setitem(inst.line, LegendKey, image2)),
                         lref, OrderedDict_setitem(h[lref], LegendKey, image2))
              ELSE Alloc(h2, t1, OrderedDict_setitem(inst.line, LegendKey, image2))
    IN CASE fail = "none" ->
              WriteResult(h3, RestoredRef(lref, t1), RestoredRef(sref, t2), inst,
                          Plot_write("\\addplot+", inst.sub, ErrorPlot_error_points, <<>>)
                              \o Plot_write("\\addplot+", inst.line, ErrorPlot_line_points, <<>>),
                          "")
         [] fail = "child1" -> WriteResult(h2, t1, t2, inst, <<>>, "OSError")
         [] fail = "child2" ->
              WriteResult(h2, t1, t2, inst,
                          Plot_write("\\addplot+", inst.sub, ErrorPlot_error_points, <<>>),
                          "OSError")
         [] fail = "legend" ->
              IF drawn
              THEN WriteResult(h3, t1, t2, inst,
                               Plot_write("\\addplot+", inst.sub, ErrorPlot_error_points, <<>>)
                                   \o Plot_write_until("\\addplot+", inst.line, LegendKey, <<>>)
                                   \o <<"{\\fill">>,
                               "OSError")
              ELSE WriteResult(h2, t1, t2, inst,
                               Plot_write("\\addplot+", inst.sub, ErrorPlot_error_points, <<>>),
                               "OSError")

\* ErrorPlot.write(file)
ErrorPlot_write(opts, h, lref, sref, fail) ==
    Bind(ErrorPlot_installs(opts, h[lref], h[sref]),
         LAMBDA inst : ErrorPlot_super_write(h, lref, sref, inst, fail))

\* Violin.write, lines 707-708: the containers installed on self.line and
\* self.violin; own_line and own_violin are old_line_opts and old_violin_opts
Violin_installs(opts, own_line, own_violin, o) ==
    [line |-> BaseList_init(MergeArgs(Dict(<<>>), OptionList(opts), OptionList(own_line)),
                            <<>>).d,
     sub |-> BaseList_init(
                 MergeArgs(Dict(<< <<LegendKey,
                                     [t |-> "Violin._LegendImage", orientation |-> o]>> >>),
                           OptionList(opts), OptionList(own_violin)), <<>>).d]

\* Violin.write, lines 709-711, with inst installed; fail names where
\* file.write raises:
\*   child1: at the first write of self.violin; legend: at the first write of
\*   the legend image of self.violin; child2: at the first write of self.line
Violin_super_write(h, lref, sref, inst, o, fail) ==
    LET t1 == Fresh(h)
        t2 == Fresh(Alloc(h, t1, inst.line))
        h2 == Alloc(Alloc(h, t1, inst.line), t2, inst.sub)
        drawn == Lookup(inst.sub, LegendKey).t = "Violin._LegendImage"
    IN CASE fail = "none" ->
              WriteResult(h2, RestoredRef(lref, t1), RestoredRef(sref, t2), inst,
                          Plot_write("\\addplot+", inst.sub, Violin_violin_points(o), inst.line)
                              \o Plot_write("\\addplot", inst.line, Violin_line_points(o),
                                            inst.line),
                          "")
         [] fail = "child1" -> WriteResult(h2, t1, t2, inst, <<>>, "OSError")
         [] fail = "legend" ->
              IF drawn
              THEN WriteResult(h2, t1, t2, inst,
                               Plot_write_until("\\addplot+", inst.sub, LegendKey, inst.line)
                                   \o <<"{\\path[/pgfplots/.cd, smooth]">>,
                               "OSError")
              ELSE WriteResult(h2, t1, t2, inst, <<>>, "OSError")
         [] fail = "child2" ->
              WriteResult(h2, t1, t2, inst,
                          Plot_write("\\addplot+", inst.sub, Violin_violin_points(o), inst.line),
                          "OSError")

\* Violin.write(file)
Violin_write(opts, h, lref, sref, o, fail) ==
    Bind(Violin_installs(opts, h[lref], h[sref], o),
         LAMBDA inst : Violin_super_write(h, lref, sref, inst, o, fail))

(***************************************************************************)
(* Spec: one composite element, its construction, the assignment of an     *)
(* option on it or on its line sub-plot, and its write.                    *)
(***************************************************************************)
\* the constructor calls: ErrorPlot(x, y, e, *args, line_options=..., error_options=...,
\* **kwargs) and Violin(x, pdf, *args, orientation=..., line_options=...,
\* violin_options=..., **kwargs)
Ctor(k, o, args, kwargs, lo, so) ==
    [kind |-> k, orientation |-> o, args |-> args, kwargs |-> kwargs,
     line_options |-> lo, sub_options |-> so]

ColorRed == << <<Str("color"), Str("red")>> >>

CtorCalls ==
    { Ctor(k, "vertical", c[1], c[2], c[3], c[4]) :
        k \in {"ErrorPlot", "Violin"},
        c \in { << <<>>, <<>>, None, None >>,
                << <<Str("red")>>, <<>>, None, None >>,
                << <<>>, ColorRed, None, None >>,
                << <<>>, ColorRed, Dict(<< <<Str("color"), Str("blue")>> >>), None >>,
                << <<>>, <<>>, Dict(<< <<LegendKey, Str("none")>> >>), None >>,
                << <<>>, <<>>, None, Dict(<< <<Str("draw"), Str("red")>> >>) >> } }
    \cup { Ctor("Violin", "horizontal", <<>>, <<>>, None, None) }

CompositeSetCalls ==
    { <<Str("color"), Str("blue")>>, <<Str("draw"), Str("green")>>, <<Str("thick"), None>> }

LineSetCalls == { <<Str("color"), Str("black")>> }

Init ==
    /\ \E c \in CtorCalls :
          LET e == IF c.kind = "ErrorPlot"
                   THEN ErrorPlot_init(c.args, c.kwargs, c.line_options, c.sub_options)
                   ELSE Violin_init(c.args, c.kwargs, c.line_options, c.sub_options)
          IN /\ e.exc = ""
             /\ kind = c.kind
             /\ orientation = (IF c.kind = "Violin" THEN c.orientation ELSE "none")
             /\ options = e.options
             /\ heap = Alloc(Alloc(<<>>, LineId, e.line), SubId, e.sub)
    /\ lineRef = LineId
    /\ subRef = SubId
    /\ installed = NoInstalled
    /\ out = <<>>
    /\ last = NoCall
    /\ pre = CompositeSnapshot
    /\ assigned = {}
    /\ nops = 0
    /\ nwrites = 0
    /\ root = None
    /\ escArg = None

\* composite[key] = value
CompositeSetItem ==
    \E c \in CompositeSetCalls :
        LET r == TikzElement_setitem(options, c[1], c[2]) IN
        /\ nops < MaxSets
        /\ nops' = nops + 1
        /\ options' = r.d
        /\ assigned' = IF r.exc = "" THEN assigned \cup {c[1]} ELSE assigned
        /\ last' = Call("element.setitem", r.exc, <<>>, <<>>, c[1], c[2], None)
        /\ pre' = CompositeSnapshot
        /\ out' = <<>>
        /\ UNCHANGED <<root, escArg, kind, orientation, heap, lineRef, subRef, installed, nwrites>>

\* composite.line[key] = value
LineSetItem ==
    \E c \in LineSetCalls :
        LET r == TikzElement_setitem(heap[lineRef], c[1], c[2]) IN
        /\ nops < MaxSets
        /\ nops' = nops + 1
        /\ heap' = [heap EXCEPT ![lineRef] = r.d]
        /\ last' = Call("line.setitem", r.exc, <<>>, <<>>, c[1], c[2], None)
        /\ pre' = CompositeSnapshot
        /\ out' = <<>>
        /\ UNCHANGED <<root, escArg, kind, orientation, options, lineRef, subRef, installed,
                     assigned, nwrites>>

\* composite.write(file)
CompositeWrite ==
    \E fail \in FailPoints :
      \E w \in {IF kind = "ErrorPlot"
                THEN ErrorPlot_write(options, heap, lineRef, subRef, fail)
                ELSE Violin_write(options, heap, lineRef, subRef, orientation, fail)} :
           /\ nwrites < MaxWrites
           /\ nwrites' = nwrites + 1
           /\ heap' = w.heap
           /\ lineRef' = w.lineRef
           /\ subRef' = w.subRef
           /\ installed' = w.installed
           /\ out' = w.out
           /\ last' = Call("write", w.exc, <<>>, <<>>, None, None, None)
           /\ pre' = CompositeSnapshot
           /\ UNCHANGED <<root, escArg, kind, orientation, options, assigned, nops>>

Next ==
    \/ CompositeSetItem
    \/ LineSetItem
    \/ CompositeWrite

Spec == Init /\ [][Next]_vars

(***************************************************************************)
(* Properties of the composite elements, checked under Spec.               *)
(***************************************************************************)
Written == last.op = "write" /\ last.exc = ""
WriteFailed == last.op = "write" /\ last.exc # ""

\* the sub-plots' own containers as the last call began
OwnLine == pre.heap[pre.lineRef]
OwnSub == pre.heap[pre.subRef]

\* the items a container holds: its keys in order and the value bound to each;
\* an element bound to a key is the same object whatever its own options are
Held(d) ==
    [i \in 1..Len(d) |->
        <<d[i][1], IF IsBaseElement(d[i][2]) THEN [t |-> d[i][2].t] ELSE d[i][2]>>]

\* C1: after a write of a composite element returns, each sub-plot's options
\* refers to the container it referred to before the call, that container
\* holds the same keys in the same order with the same values, and a write
\* that follows a write produces the same text.
C1_WriteLeavesSubPlots ==
    Written =>
        /\ lineRef = pre.lineRef
        /\ subRef = pre.subRef
        /\ Held(heap[lineRef]) = Held(OwnLine)
        /\ Held(heap[subRef]) = Held(OwnSub)
        /\ (pre.op = "write" /\ pre.exc = "") => out = pre.out

\* C1 witness: the second of two consecutive writes of an ErrorPlot returned.
C1_Witness ==
    /\ Written
    /\ pre.op = "write"
    /\ pre.exc = ""
    /\ nwrites >= 2
    /\ kind = "ErrorPlot"
    /\ out # <<>>

\* C2: when a write fails inside the override window, each sub-plot's options
\* refers again to the container it referred to before the call.
C2_RestoredOnError ==
    WriteFailed => (lineRef = pre.lineRef /\ subRef = pre.subRef)

Emits(d, key) == HasKey(d, key) /\ Lookup(d, key) = Lookup(options, key)

\* C6: every option assigned on the composite after its construction is
\* written by the next write in the option list of every sub-plot, with the
\* value the composite holds for it.
C6_OneNamespace ==
    Written =>
        \A key \in assigned : Emits(installed.line, key) /\ Emits(installed.sub, key)

\* the injected synthetic options of the two sub-plots
InjectedLine ==
    IF kind = "ErrorPlot"
    THEN << <<LegendKey, [t |-> "ErrorPlot._LegendImage",
                          options |-> TikzElement_init(<<OptionList(OwnSub)>>, <<>>).d]>> >>
    ELSE <<>>
InjectedSub ==
    IF kind = "Violin"
    THEN << <<LegendKey, [t |-> "Violin._LegendImage", orientation |-> orientation]>> >>
    ELSE <<>>

KeySet(d) == {d[i][1] : i \in 1..Len(d)}

\* the value of key in the first of the three containers that holds it
FirstOf(a, b, c, key) ==
    IF HasKey(a, key) THEN Lookup(a, key)
    ELSE IF HasKey(b, key) THEN Lookup(b, key) ELSE Lookup(c, key)

MergedBy(temp, first, second, third) ==
    /\ KeySet(temp) = KeySet(first) \cup KeySet(second) \cup KeySet(third)
    /\ \A key \in KeySet(temp) : Lookup(temp, key) = FirstOf(first, second, third, key)

MaxLen == 2

Chars(cs) == [t |-> "str", cs |-> cs]

\* escape_dict[c]: EscapeDict.__missing__ returns the key itself
escape_dict(c) ==
    CASE c = "&" -> <<"\\", "&">>
      [] c = "_" -> <<"\\", "_">>
      [] c = "$" -> <<"\\", "$">>
      [] c = "^" -> <<"\\", "^">>
      [] c = "#" -> <<"\\", "#">>
      [] c = "%" -> <<"\\", "%">>
      [] c = "{" -> <<"\\", "{">>
      [] c = "}" -> <<"\\", "}">>
      [] c = "\\" -> <<"\\", "t", "e", "x", "t", "b", "a", "c", "k", "s", "l", "a", "s", "h">>
      [] OTHER -> <<c>>

\* "".join(escape_dict[v] for v in value)
RECURSIVE JoinEscaped(_)
JoinEscaped(cs) ==
    IF cs = <<>> THEN <<>> ELSE escape_dict(Head(cs)) \o JoinEscaped(Tail(cs))

\* the elements iterating over value yields: the items of a list or tuple,
\* the keys of a mapping
Iterate(value) ==
    IF value.t \in {"list", "tuple"} THEN value.items ELSE Keys(value.pairs)

RECURSIVE tikz_escape_value(_)
tikz_escape_value(value) ==
    IF value.t = "str" THEN Chars(JoinEscaped(value.cs))
    ELSE IF IsIterable(value)
    THEN List([i \in 1..Len(Iterate(value)) |-> tikz_escape_value(Iterate(value)[i])])
    ELSE IF IsMapping(value)
    THEN [value EXCEPT !.pairs = [i \in 1..Len(value.pairs) |->
                                     <<value.pairs[i][1],
                                       tikz_escape_value(value.pairs[i][2])>>]]
    ELSE value

\* the sequences over S of length at most n
SeqsUpTo(S, n) == UNION {[1..k -> S] : k \in 0..n}

EscapeAlphabet == {"a", "b", "&", "_", "$", "^", "#", "%", "{", "}", "\\"}

ExampleText == Chars(<<"a", "_", "b", "&", "c">>)

EscapeTexts == {Chars(cs) : cs \in SeqsUpTo(EscapeAlphabet, MaxLen)} \cup {ExampleText}

EscapeElements == {Chars(<<"a", "_">>), Chars(<<"b">>), Num(1), None}

\* the arguments of tikz_escape_value
EscapeValues ==
    EscapeTexts
    \cup {None, Num(1), Float("0.5"), Object}
    \cup {List(items) : items \in SeqsUpTo(EscapeElements, MaxLen)}
    \cup {Tuple(items) : items \in SeqsUpTo(EscapeElements, MaxLen)}
    \cup {List(<<List(<<Chars(<<"a", "_">>)>>), Chars(<<"%">>)>>),
          List(<<Dict(<< <<Chars(<<"k">>), Chars(<<"&">>)>> >>)>>)}
    \cup {Dict(<<>>),
          Dict(<< <<Chars(<<"k">>), Chars(<<"v", "_">>)>> >>),
          Dict(<< <<Chars(<<"a", "_">>), Num(1)>>, <<Chars(<<"b">>), Chars(<<"b">>)>> >>),
          Dict(<< <<Chars(<<"k">>), List(<<Chars(<<"#">>)>>)>> >>),
          OptionList(<< <<Chars(<<"a", "_">>), Value(Chars(<<"x", "_">>))>> >>)}

(***************************************************************************)
(* SpecEscape: calls of tikz_escape_value.                                 *)
(***************************************************************************)
InitEscape ==
    /\ kind = "none"
    /\ options = <<>>
    /\ NoComposite
    /\ out = <<>>
    /\ last = NoCall
    /\ pre = [options |-> <<>>, heap |-> <<>>, lineRef |-> 0, subRef |-> 0,
              out |-> <<>>, op |-> "init", exc |-> ""]
    /\ nops = 0
    /\ nwrites = 0
    /\ root = None
    /\ escArg \in EscapeValues

\* tikz_escape_value(escArg)
Escape ==
    /\ last.op = "init"
    /\ \E ret \in {tikz_escape_value(escArg)} :
          Observed(Call("tikz_escape_value", "", <<escArg>>, <<>>, None, None, ret), <<>>)

NextEscape == Escape

SpecEscape == InitEscape /\ [][NextEscape]_vars

(***************************************************************************)
(* The claim about tikz_escape_value.                                      *)
(***************************************************************************)
Reserved == {"&", "_", "$", "^", "#", "%", "{", "}", "\\"}

\* the escape of one character: a reserved character is preceded by a
\* backslash, the backslash itself becomes \textbackslash
EscapeOf(c) ==
    IF c = "\\" THEN <<"\\", "t", "e", "x", "t", "b", "a", "c", "k", "s", "l", "a", "s", "h">>
    ELSE IF c \in Reserved THEN <<"\\", c>>
    ELSE <<c>>

RECURSIVE EscapedText(_)
EscapedText(cs) ==
    IF cs = <<>> THEN <<>>
    ELSE EscapedText(SubSeq(cs, 1, Len(cs) - 1)) \o EscapeOf(cs[Len(cs)])

\* r has the structure of v, with the text leaves of v escaped
RECURSIVE KeepsStructure(_, _)
KeepsStructure(v, r) ==
    CASE v.t = "str" -> r = Chars(EscapedText(v.cs))
      [] IsMapping(v) ->
            /\ IsMapping(r)
            /\ Keys(r.pairs) = Keys(v.pairs)
            /\ \A i \in 1..Len(v.pairs) : KeepsStructure(v.pairs[i][2], r.pairs[i][2])
      [] v.t \in {"list", "tuple"} ->
            /\ r.t \in {"list", "tuple"}
            /\ Len(r.items) = Len(v.items)
            /\ \A i \in 1..Len(v.items) : KeepsStructure(v.items[i], r.items[i])
      [] OTHER -> r = v

\* C12: tikz_escape_value keeps the structure of its argument: a mapping
\* gives a mapping with the same keys and escaped text values, a sequence a
\* sequence of the same length with escaped text elements, a non-text leaf
\* itself; in a text every reserved character is replaced by its escape and
\* every other character is kept, so that "a_b&c" gives "a\_b\&c".
C12_StructureKept ==
    last.op = "tikz_escape_value" =>
        /\ KeepsStructure(last.args[1], last.ret)
        /\ last.args[1] = ExampleText =>
              last.ret = Chars(<<"a", "\\", "_", "b", "\\", "&", "c">>)

\* the part of C12 that the program keeps: every argument that holds no
\* mapping
RECURSIVE HoldsMapping(_)
HoldsMapping(v) ==
    \/ IsMapping(v)
    \/ v.t \in {"list", "tuple"} /\ \E i \in 1..Len(v.items) : HoldsMapping(v.items[i])

EscapeKeepsSequences ==
    (last.op = "tikz_escape_value" /\ ~HoldsMapping(last.args[1])) =>
        /\ KeepsStructure(last.args[1], last.ret)
        /\ last.args[1] = ExampleText =>
              last.ret = Chars(<<"a", "\\", "_", "b", "\\", "&", "c">>)

(***************************************************************************)
(* The tree of elements.  An element is a record of its class t, its name, *)
(* its options and its children; a plot holds its coordinates in points, a *)
(* GroupPlot also its rows, cols and its two label nodes.                  *)
(***************************************************************************)
GroupStyle == Str("group style")

\* Figure(*args, **kwargs)
Figure_init(args, kwargs) ==
    [t |-> "Figure", name |-> "tikzpicture",
     options |-> TikzElement_init(args, kwargs).d, children |-> <<>>]

\* Axis(*args, **kwargs)
Axis_init(args, kwargs) ==
    [t |-> "Axis", name |-> "axis",
     options |-> TikzElement_init(args, kwargs).d, children |-> <<>>]

\* NextPlot(*args, **kwargs)
NextPlot_init(args, kwargs) ==
    [t |-> "NextPlot", name |-> "nextgroupplot",
     options |-> TikzElement_init(args, kwargs).d, children |-> <<>>]

\* CPlot(Coordinates(points), *args, **kwargs), without 'mark options', label
\* and legend entry
CPlot_init(points, args, kwargs) ==
    [t |-> "CPlot", name |-> "addplot+",
     options |-> TikzElement_init(args, kwargs).d, points |-> points]

\* Node.__init__: the child of a node with a value
Node_value(value) == IF value = None THEN None ELSE EncapsulatedValue(value)

\* GroupPlot.XLabel(value=value), position 'north'
XLabel_init(value) ==
    [t |-> "XLabel", name |-> "node",
     options |->
         TikzElement_setitem(
             TikzElement_setitem(
                 TikzElement_init(<<Str("/pgfplots/every axis label")>>, <<>>).d,
                 Str("at"), Str("(gbox.north)")).d,
             Str("anchor"), Str("south")).d,
     value |-> Node_value(value)]

\* GroupPlot.YLabel(value=value), position 'west'
YLabel_init(value) ==
    [t |-> "YLabel", name |-> "node",
     options |->
         TikzElement_setitem(
             TikzElement_setitem(
                 TikzElement_init(<<Str("/pgfplots/every axis label"),
                                    Tuple(<<Str("anchor"), Str("south")>>)>>, <<>>).d,
                 Str("at"), Str("(gbox.west)")).d,
             Str("rotate"), Num(90)).d,
     value |-> Node_value(value)]

\* GroupPlot(*args, rows=rows, cols=cols, xlabel=xlabel, ylabel=ylabel), the
\* labels given as None or as a text
GroupPlot_init(args, rows, cols, xlabel, ylabel) ==
    [t |-> "GroupPlot", name |-> "groupplot",
     options |-> TikzElement_init(args, <<>>).d, children |-> <<>>,
     rows |-> rows, cols |-> cols,
     xlabel |-> XLabel_init(xlabel), ylabel |-> YLabel_init(ylabel)]

\* "\\{name}".format(name=self.name)
Backslash(name) ==
    CASE name = "nextgroupplot" -> "\\nextgroupplot"
      [] name = "addplot+" -> "\\addplot+"
      [] name = "node" -> "\\node"

\* XLabel.write / YLabel.write: Node.write when the node has a value
Node_write(node) ==
    IF node.value # None
    THEN TikzCommand_head(Backslash(node.name)) \o OptionList_write(node.options, <<>>).out
             \o WriteValue(node.value, <<>>) \o <<";">>
    ELSE <<>>

\* the first lines of GroupPlot.write: self.options as they leave it
GroupPlot_group_style(e) ==
    IF HasKey(e.options, GroupStyle)
    THEN LET go == Lookup(e.options, GroupStyle) IN
         IF go.t # "ValueList" THEN Res("TypeError", e.options)
         ELSE IF \/ HasKey(go.pairs, Str("group size"))
                 \/ HasKey(go.pairs, Str("columns"))
                 \/ HasKey(go.pairs, Str("rows"))
         THEN Res("", e.options)
         ELSE Bind(BaseList_setitem(go.pairs, Str("columns"), e.cols), LAMBDA c :
              Bind(BaseList_setitem(c.d, Str("rows"), e.rows), LAMBDA r :
                   Res(r.exc, OrderedDict_setitem(e.options, GroupStyle, ValueList(r.d)))))
    ELSE TikzElement_setitem(e.options, GroupStyle,
                             Dict(<< <<Str("columns"), e.cols>>, <<Str("rows"), e.rows>> >>))

\* the outcome of element.write(file): the exception, the text written and
\* the element as the write leaves it
Wrote(exc, text, e) == [exc |-> exc, out |-> text, e |-> e]

RECURSIVE Element_write(_)
RECURSIVE BaseElement_write(_)
RECURSIVE BaseElement_write_reversed(_)

BaseElement_write_reversed(children) ==
    IF children = <<>> THEN [exc |-> "", out |-> <<>>, children |-> <<>>]
    ELSE Bind(Element_write(children[Len(children)]), LAMBDA w :
         IF w.exc # ""
         THEN [exc |-> w.exc, out |-> w.out,
               children |-> SubSeq(children, 1, Len(children) - 1) \o <<w.e>>]
         ELSE Bind(BaseElement_write_reversed(SubSeq(children, 1, Len(children) - 1)),
                   LAMBDA r : [exc |-> r.exc, out |-> w.out \o r.out,
                               children |-> r.children \o <<w.e>>]))

\* BaseElement.write: for child in self.children: child.write(file)
BaseElement_write(children) ==
    IF children = <<>> THEN [exc |-> "", out |-> <<>>, children |-> <<>>]
    ELSE Bind(Element_write(Head(children)), LAMBDA w :
         IF w.exc # ""
         THEN [exc |-> w.exc, out |-> w.out, children |-> <<w.e>> \o Tail(children)]
         ELSE Bind(BaseElement_write(Tail(children)),
                   LAMBDA r : [exc |-> r.exc, out |-> w.out \o r.out,
                               children |-> <<w.e>> \o r.children]))

\* TikzEnvironment.write
TikzEnvironment_write(e) ==
    Bind(BaseElement_write(e.children), LAMBDA c :
         Wrote(c.exc,
               <<"%\n", "\\begin{", e.name, "}">> \o OptionList_write(e.options, <<>>).out
                   \o <<"%\n">> \o c.out
                   \o (IF c.exc = "" THEN <<"%\n", "\\end{", e.name, "}\n">> ELSE <<>>),
               [e EXCEPT !.children = c.children]))

\* TikzCommand.write, the write of a NextPlot
TikzCommand_write(e) ==
    Bind(BaseElement_write(e.children), LAMBDA c :
         Wrote(c.exc,
               TikzCommand_head(Backslash(e.name)) \o OptionList_write(e.options, <<>>).out
                   \o c.out,
               [e EXCEPT !.children = c.children]))

\* GroupPlot.write
GroupPlot_write(e) ==
    Bind(GroupPlot_group_style(e), LAMBDA g :
         IF g.exc # "" THEN Wrote(g.exc, <<>>, e)
         ELSE Bind(TikzEnvironment_write([e EXCEPT !.options = g.d]), LAMBDA w :
              Wrote(w.exc,
                    <<"\\begin{scope}[local bounding box=gbox]">> \o w.out
                        \o (IF w.exc = ""
                            THEN <<"\\end{scope}">> \o Node_write(e.ylabel)
                                     \o Node_write(e.xlabel)
                            ELSE <<>>),
                    w.e)))

\* element.write(file), by the class of the element
Element_write(e) ==
    CASE e.t \in {"Figure", "Axis"} -> TikzEnvironment_write(e)
      [] e.t = "GroupPlot" -> GroupPlot_write(e)
      [] e.t = "NextPlot" -> TikzCommand_write(e)
      [] e.t = "CPlot" ->
            Wrote("", Plot_write(Backslash(e.name), e.options, e.points, <<>>), e)

(***************************************************************************)
(* SpecEnv: a tree of elements under root, built by the methods of Figure, *)
(* Axis and GroupPlot, changed through the item interface and the          *)
(* attributes of a GroupPlot, and written.                                 *)
(***************************************************************************)
\* the elements a tree starts from
RootCalls ==
    { Figure_init(<<>>, <<>>),
      Axis_init(<<>>, <<>>),
      Axis_init(<<Str("grid")>>, <<>>),
      GroupPlot_init(<<>>, Num(1), Num(2), None, None),
      GroupPlot_init(<<>>, Num(2), Num(1), Str("x"), Str("y")),
      GroupPlot_init(<<Dict(<< <<GroupStyle,
                                 Dict(<< <<Str("group size"), Str("2 by 1")>> >>)>> >>)>>,
                     Num(1), Num(2), None, None) }

AxisCalls == {<<>>, <<Str("grid")>>}

PlotCalls ==
    { [points |-> <<Tuple(<<Num(0), Num(1)>>)>>, args |-> <<>>],
      [points |-> <<Tuple(<<Num(0), Num(1)>>), Tuple(<<Num(1), Num(2)>>)>>,
       args |-> <<Str("red")>>] }

\* the item assignments on the root, by its class
EnvSetCalls(t) ==
    {<<Str("width"), Str("5cm")>>}
    \cup (IF t = "GroupPlot"
          THEN {<<GroupStyle, Dict(<< <<Str("horizontal sep"), Str("1cm")>> >>)>>,
                <<GroupStyle, Str("x")>>}
          ELSE {})

ColsValues == {Num(1), Num(3)}
RowsValues == {Num(2)}

\* the element a method is called on: the root (0) or a child of the root
Targets == 0..Len(root.children)
At(target) == IF target = 0 THEN root ELSE root.children[target]
Put(target, e) == IF target = 0 THEN e ELSE [root EXCEPT !.children[target] = e]

InitEnv ==
    /\ root \in RootCalls
    /\ kind = root.t
    /\ options = <<>>
    /\ orientation = "none"
    /\ heap = <<>>
    /\ lineRef = 0
    /\ subRef = 0
    /\ installed = NoInstalled
    /\ assigned = {root.options[i][1] : i \in 1..Len(root.options)}
    /\ out = <<>>
    /\ last = NoCall
    /\ pre = [root |-> root]
    /\ nops = 0
    /\ nwrites = 0
    /\ escArg = None

\* the state after a call that changes the tree
EnvMutated(call, r, keys) ==
    /\ nops < MaxOps
    /\ nops' = nops + 1
    /\ root' = r
    /\ assigned' = assigned \cup keys
    /\ last' = call
    /\ pre' = [root |-> root]
    /\ out' = <<>>
    /\ UNCHANGED <<escArg, kind, orientation, options, heap, lineRef, subRef, installed,
                 nwrites>>

\* self.children.append(child) on the element at target
Appended(target, child) ==
    Put(target, [At(target) EXCEPT !.children = Append(@, child)])

\* figure.axis(*args)
Figure_axis ==
    /\ root.t = "Figure"
    /\ \E args \in AxisCalls :
          EnvMutated(Call("axis", "", args, <<>>, None, None, None),
                     Appended(0, Axis_init(args, <<>>)), {})

\* figure.subplot(rows=1, cols=2)
Figure_subplot ==
    /\ root.t = "Figure"
    /\ EnvMutated(Call("subplot", "", <<>>, <<>>, None, None, None),
                  Appended(0, GroupPlot_init(<<>>, Num(1), Num(2), None, None)), {})

\* axis.plot(x, y, *args) on the root or on a child of it
Axis_plot ==
    \E target \in Targets, c \in PlotCalls :
        /\ At(target).t \in {"Axis", "NextPlot"}
        /\ EnvMutated(Call("plot", "", c.args, <<>>, None, Num(target), None),
                      Appended(target, CPlot_init(c.points, c.args, <<>>)), {})

\* groupplot.nextaxis() on the root or on a child of it
GroupPlot_nextaxis ==
    \E target \in Targets :
        /\ At(target).t = "GroupPlot"
        /\ EnvMutated(Call("nextaxis", "", <<>>, <<>>, None, Num(target), None),
                      Appended(target, NextPlot_init(<<>>, <<>>)), {})

\* root[key] = value
EnvSetItem ==
    \E c \in EnvSetCalls(root.t) :
        \E r \in {TikzElement_setitem(root.options, c[1], c[2])} :
            EnvMutated(Call("element.setitem", r.exc, <<>>, <<>>, c[1], c[2], None),
                       [root EXCEPT !.options = r.d],
                       IF r.exc = "" THEN {c[1]} ELSE {})

\* groupplot.cols = value on the root or on a child of it
GroupPlot_set_cols ==
    \E target \in Targets, value \in ColsValues :
        /\ At(target).t = "GroupPlot"
        /\ EnvMutated(Call("cols", "", <<>>, <<>>, None, value, None),
                      Put(target, [At(target) EXCEPT !.cols = value]), {})

\* groupplot.rows = value on the root or on a child of it
GroupPlot_set_rows ==
    \E target \in Targets, value \in RowsValues :
        /\ At(target).t = "GroupPlot"
        /\ EnvMutated(Call("rows", "", <<>>, <<>>, None, value, None),
                      Put(target, [At(target) EXCEPT !.rows = value]), {})

\* root.write(file)
EnvWrite ==
    /\ nwrites < MaxWrites
    /\ \E w \in {Element_write(root)} :
          /\ nwrites' = nwrites + 1
          /\ root' = w.e
          /\ out' = w.out
          /\ last' = Call("write", w.exc, <<>>, <<>>, None, None, None)
          /\ pre' = [root |-> root]
          /\ UNCHANGED <<escArg, kind, orientation, options, heap, lineRef, subRef, installed,
                       assigned, nops>>

NextEnv ==
    \/ Figure_axis
    \/ Figure_subplot
    \/ Axis_plot
    \/ GroupPlot_nextaxis
    \/ EnvSetItem
    \/ GroupPlot_set_cols
    \/ GroupPlot_set_rows
    \/ EnvWrite

SpecEnv == InitEnv /\ [][NextEnv]_vars

(***************************************************************************)
(* The claims about the tree of elements.                                  *)
(***************************************************************************)
EnvWritten == last.op = "write" /\ last.exc = ""

\* C13: a write changes nothing in the tree: the options and the children
\* of the written element are after the write what they were before it; so
\* the rows and cols of a GroupPlot as they are at a write are the ones that
\* write shows, unless the caller gave the element a group style.
C13_WriteKeepsTree ==
    EnvWritten =>
        /\ root.options = pre.root.options
        /\ root.children = pre.root.children
        /\ (root.t = "GroupPlot" /\ GroupStyle \notin assigned) =>
              /\ Writes(<<"columns", "=">> \o Format(root.cols))
              /\ Writes(<<"rows", "=">> \o Format(root.rows))

\* sub is written somewhere in text
Occurs(sub, text) ==
    \E j \in 0..(Len(text) - Len(sub)) : SubSeq(text, j + 1, j + Len(sub)) = sub

\* the places of the open and of the close marker of the root in the text
OpenMarkers ==
    {j \in 1..(Len(out) - 2) : SubSeq(out, j, j + 2) = <<"\\begin{", root.name, "}">>}
CloseMarkers ==
    {j \in 1..(Len(out) - 2) : SubSeq(out, j, j + 2) = <<"\\end{", root.name, "}\n">>}

\* what a child writes when it is written on its own
OwnText(child) == Element_write(child).out

RECURSIVE ChildrenText(_)
ChildrenText(children) ==
    IF children = <<>> THEN <<>>
    ELSE ChildrenText(SubSeq(children, 1, Len(children) - 1))
             \o OwnText(children[Len(children)])

EnvironmentShaped == root.t \in {"Figure", "Axis", "GroupPlot"}

\* C14: a write of an environment that returns emits the open marker
\* \begin{name} once, then the option list, then the whole output of each
\* child in the order the children were appended, then the close marker
\* \end{name} of the same name once, also when there is no child; no output
\* of a child comes before the open marker or after the close marker.
C14_EnvironmentBrackets ==
    (EnvWritten /\ EnvironmentShaped) =>
        /\ Cardinality(OpenMarkers) = 1
        /\ Cardinality(CloseMarkers) = 1
        /\ LET b == CHOOSE j \in OpenMarkers : TRUE
               c == CHOOSE j \in CloseMarkers : TRUE
               opts == OptionList_write(root.options, <<>>).out
               first == b + 3 + Len(opts)
           IN /\ first < c - 1
              /\ SubSeq(out, b + 3, first - 1) = opts
              /\ out[first] = "%\n"
              /\ SubSeq(out, first + 1, c - 2) = ChildrenText(pre.root.children)
              /\ out[c - 1] = "%\n"
              /\ \A i \in 1..Len(pre.root.children) :
                    OwnText(pre.root.children[i]) # <<>> =>
                        /\ ~Occurs(OwnText(pre.root.children[i]), SubSeq(out, 1, b - 1))
                        /\ ~Occurs(OwnText(pre.root.children[i]),
                                   SubSeq(out, c + 3, Len(out)))

\* C14 witness: a figure was written whose first child is an axis with a
\* plot of its own and whose second child is a group plot.
C14_Witness ==
    /\ EnvWritten
    /\ root.t = "Figure"
    /\ Len(root.children) = 2
    /\ root.children[1].t = "Axis"
    /\ root.children[1].children # <<>>
    /\ root.children[2].t = "GroupPlot"

====
